---------------------------- MODULE Spec2Model ----------------------------
(***************************************************************************)
(* cdq-analysis/pkg/util.go: the repository acquirer (CloneRepo), the      *)
(* branch inspector (GetBranchFromRepo) and the raw-content URL rewriting  *)
(* (ConvertGitHubURL, UpdateGitLink).                                      *)
(*                                                                         *)
(* A Go string is a sequence of one-character strings, so that splitting,  *)
(* trimming, replacing and pattern matching are computed on the text.      *)
(* Two specifications share the module: Spec runs CloneRepo and            *)
(* GetBranchFromRepo against an external git process, SpecURL applies      *)
(* ConvertGitHubURL and UpdateGitLink to URLs.                             *)
(***************************************************************************)
EXTENDS Integers, Sequences, FiniteSets, TLC

VARIABLES
    \* ---- CloneRepo / GetBranchFromRepo ----
    pc,         \* position of the running call
    op,         \* "none", "CloneRepo" or "GetBranchFromRepo"
    gitURL,     \* the GitURL argument: RepoURL, Revision, Token
    clonePath,  \* the clonePath argument
    dirState,   \* the directory clonePath on disk: "present", "absent" or "denied"
    cloneURL,   \* local cloneURL of CloneRepo
    output,     \* local output: what the clone command printed
    lastOut,    \* what the last finished command printed
    err,        \* local err: the last command's error, Nil when none
    running,    \* the external commands in flight
    started,    \* the commands started by the current call, in order
    finished,   \* the commands of the current call that have ended, with their errors
    result,     \* what the call returned
    calls,      \* number of calls made so far
    \* ---- ConvertGitHubURL / UpdateGitLink ----
    upc,        \* "ready" or "converted"
    ufn,        \* the function called: "ConvertGitHubURL" or "UpdateGitLink"
    inURL,      \* the repo argument
    inRevision, \* the revision argument
    inContext,  \* the context argument
    normURL,    \* the URL after lines 161-167 of the last application
    outURL,     \* the string returned by the last application
    outErr,     \* the error returned by the last application
    prevURL,    \* the string returned by the application before it
    applied     \* number of applications so far

cloneVars == <<pc, op, gitURL, clonePath, dirState, cloneURL, output, lastOut, err,
               running, started, finished, result, calls>>
urlVars == <<upc, ufn, inURL, inRevision, inContext, normURL, outURL, outErr,
            prevURL, applied>>
vars == <<cloneVars, urlVars>>

\* Number of CloneRepo / GetBranchFromRepo calls in one run.
MaxCalls == 2
\* Number of times ConvertGitHubURL is applied to its own output.
MaxApply == 2

\* The empty Go string.
Empty == <<>>

-----------------------------------------------------------------------------
(* Literal texts of util.go and the texts the inputs are built from.       *)

\* "https://"  util.go:61 separator of strings.Split
GitSep ==
    <<"h","t","t","p","s",":","/","/">>

\* "https://token:"  util.go:64 format, up to the first verb
TokenPrefix ==
    <<"h","t","t","p","s",":","/","/","t","o","k","e","n",":">>

\* "@"  util.go:64 format, between the verbs
AtSign ==
    <<"@">>

\* "repository "  util.go:47 text before .*
RepoNotFoundHead ==
    <<"r","e","p","o","s","i","t","o","r","y"," ">>

\* " not found"  util.go:47 text after .*
RepoNotFoundTail ==
    <<" ","n","o","t"," ","f","o","u","n","d">>

\* "pathspec "  util.go:48 text before .*
RevisionNotFoundHead ==
    <<"p","a","t","h","s","p","e","c"," ">>

\* " did not match any files known to git"  util.go:48 text after .*: (s) is a group, it matches the letter s
RevisionNotFoundTail ==
    <<" ","d","i","d"," ","n","o","t"," ","m","a","t","c","h"," ","a","n","y"," ","f",
      "i","l","e","s"," ","k","n","o","w","n"," ","t","o"," ","g","i","t">>

\* "Authentication failed "  util.go:49 text before .*
AuthenticationFailedHead ==
    <<"A","u","t","h","e","n","t","i","c","a","t","i","o","n"," ","f","a","i","l","e",
      "d"," ">>

\* "failed to clone the repo: "  util.go:82
CloneFailedText ==
    <<"f","a","i","l","e","d"," ","t","o"," ","c","l","o","n","e"," ","t","h","e"," ",
      "r","e","p","o",":"," ">>

\* "failed to checkout the revision "  util.go:95
CheckoutFailedText ==
    <<"f","a","i","l","e","d"," ","t","o"," ","c","h","e","c","k","o","u","t"," ","t",
      "h","e"," ","r","e","v","i","s","i","o","n"," ">>

\* "failed to get the branch from the repo: "  util.go:111
BranchFailedText ==
    <<"f","a","i","l","e","d"," ","t","o"," ","g","e","t"," ","t","h","e"," ","b","r",
      "a","n","c","h"," ","f","r","o","m"," ","t","h","e"," ","r","e","p","o",":"," ">>

\* ": "  util.go:95
ColonSpace ==
    <<":"," ">>

\* "\n"  util.go:116
Newline ==
    <<"\n">>

\* "git"  util.go:163 the three letters after the dot of .git$
GitSuffix ==
    <<"g","i","t">>

\* "/"  util.go:167
Slash ==
    <<"/">>

\* "github"  util.go:174
Github ==
    <<"g","i","t","h","u","b">>

\* "raw"  util.go:174
Raw ==
    <<"r","a","w">>

\* "tree"  util.go:177
Tree ==
    <<"t","r","e","e">>

\* "/tree"  util.go:179
SlashTree ==
    <<"/","t","r","e","e">>

\* "/main"  util.go:185
SlashMain ==
    <<"/","m","a","i","n">>

\* "./"  util.go:187
DotSlash ==
    <<".","/">>

\* "."  util.go:187
Dot ==
    <<".">>

\* "github.com"  util.go:194
GithubCom ==
    <<"g","i","t","h","u","b",".","c","o","m">>

\* "raw.githubusercontent.com"  util.go:195
RawGithubCom ==
    <<"r","a","w",".","g","i","t","h","u","b","u","s","e","r","c","o","n","t","e","n",
      "t",".","c","o","m">>

\* "http"  util.go:271
Http ==
    <<"h","t","t","p">>

\* "exit status 128"  text of the exec.ExitError of a failed git clone
Exit128 ==
    <<"e","x","i","t"," ","s","t","a","t","u","s"," ","1","2","8">>

\* "exit status 1"  text of the exec.ExitError of a failed git checkout
Exit1 ==
    <<"e","x","i","t"," ","s","t","a","t","u","s"," ","1">>

\* "ghp9"  an access token
Tok ==
    <<"g","h","p","9">>

\* "https://github.com/o/r"  
UrlRepo ==
    <<"h","t","t","p","s",":","/","/","g","i","t","h","u","b",".","c","o","m","/","o",
      "/","r">>

\* "https://github.com/o/r.git"  
UrlRepoGit ==
    <<"h","t","t","p","s",":","/","/","g","i","t","h","u","b",".","c","o","m","/","o",
      "/","r",".","g","i","t">>

\* "http://github.com/o/r"  no https:// in it
UrlHttp ==
    <<"h","t","t","p",":","/","/","g","i","t","h","u","b",".","c","o","m","/","o","/",
      "r">>

\* "git@github.com:o/r.git"  scp-like remote, no https:// in it
UrlScp ==
    <<"g","i","t","@","g","i","t","h","u","b",".","c","o","m",":","o","/","r",".","g",
      "i","t">>

\* "https://a.io/https://github.com/o/r"  https:// occurs twice
UrlTwice ==
    <<"h","t","t","p","s",":","/","/","a",".","i","o","/","h","t","t","p","s",":","/",
      "/","g","i","t","h","u","b",".","c","o","m","/","o","/","r">>

\* "v9"  
RevV9 ==
    <<"v","9">>

\* "/tmp/r"  
PathTmp ==
    <<"/","t","m","p","/","r">>

\* "/tmp/pathspec x did not match any files known to git"  a directory name git clone echoes
PathOdd ==
    <<"/","t","m","p","/","p","a","t","h","s","p","e","c"," ","x"," ","d","i","d"," ",
      "n","o","t"," ","m","a","t","c","h"," ","a","n","y"," ","f","i","l","e","s"," ",
      "k","n","o","w","n"," ","t","o"," ","g","i","t">>

\* "Cloning into '"  git clone's progress line
CloningHead ==
    <<"C","l","o","n","i","n","g"," ","i","n","t","o"," ","'">>

\* "'...\n"  
CloningTail ==
    <<"'",".",".",".","\n">>

\* "remote: Repository not found.\nfatal: repository 'https://github.com/o/r/' not found\n"  git clone, repository missing
OutRepoNotFound ==
    <<"r","e","m","o","t","e",":"," ","R","e","p","o","s","i","t","o","r","y"," ","n",
      "o","t"," ","f","o","u","n","d",".","\n","f","a","t","a","l",":"," ","r","e","p",
      "o","s","i","t","o","r","y"," ","'","h","t","t","p","s",":","/","/","g","i","t",
      "h","u","b",".","c","o","m","/","o","/","r","/","'"," ","n","o","t"," ","f","o",
      "u","n","d","\n">>

\* "fatal: Authentication failed for 'https://github.com/o/r/'\n"  git clone, bad credentials
OutAuthFailed ==
    <<"f","a","t","a","l",":"," ","A","u","t","h","e","n","t","i","c","a","t","i","o",
      "n"," ","f","a","i","l","e","d"," ","f","o","r"," ","'","h","t","t","p","s",":",
      "/","/","g","i","t","h","u","b",".","c","o","m","/","o","/","r","/","'","\n">>

\* "fatal: Authentication failed for repository 'r' not found\n"  both signatures on one line
OutBoth ==
    <<"f","a","t","a","l",":"," ","A","u","t","h","e","n","t","i","c","a","t","i","o",
      "n"," ","f","a","i","l","e","d"," ","f","o","r"," ","r","e","p","o","s","i","t",
      "o","r","y"," ","'","r","'"," ","n","o","t"," ","f","o","u","n","d","\n">>

\* "fatal: repository\n'r' not found\n"  the signature broken over two lines
OutSplit ==
    <<"f","a","t","a","l",":"," ","r","e","p","o","s","i","t","o","r","y","\n","'","r",
      "'"," ","n","o","t"," ","f","o","u","n","d","\n">>

\* "fatal: unable to access 'https://github.com/o/r/'\n"  git clone, another failure
OutOther ==
    <<"f","a","t","a","l",":"," ","u","n","a","b","l","e"," ","t","o"," ","a","c","c",
      "e","s","s"," ","'","h","t","t","p","s",":","/","/","g","i","t","h","u","b",".",
      "c","o","m","/","o","/","r","/","'","\n">>

\* "main\n"  git rev-parse --abbrev-ref HEAD
OutBranch ==
    <<"m","a","i","n","\n">>

\* "HEAD\n"  git rev-parse on a detached HEAD
OutHead ==
    <<"H","E","A","D","\n">>

\* "fatal: not a git repository\n"  git rev-parse outside a repository
OutNotRepo ==
    <<"f","a","t","a","l",":"," ","n","o","t"," ","a"," ","g","i","t"," ","r","e","p",
      "o","s","i","t","o","r","y","\n">>

\* "gitlab.com"  
HostGitlab ==
    <<"g","i","t","l","a","b",".","c","o","m">>

\* "github.example.com"  contains github, is not github.com
HostEnterprise ==
    <<"g","i","t","h","u","b",".","e","x","a","m","p","l","e",".","c","o","m">>

\* "/org/repo"  
PathRepo ==
    <<"/","o","r","g","/","r","e","p","o">>

\* "/org/legit"  ends in git without a dot before it
PathLegit ==
    <<"/","o","r","g","/","l","e","g","i","t">>

\* "/org/repo/tree/v1.2"  tree then one component
PathTreeRef ==
    <<"/","o","r","g","/","r","e","p","o","/","t","r","e","e","/","v","1",".","2">>

\* "/org/repo/tree/v1.2/src"  tree then two components
PathTreeRefSrc ==
    <<"/","o","r","g","/","r","e","p","o","/","t","r","e","e","/","v","1",".","2","/",
      "s","r","c">>

\* ".git"  
DotGit ==
    <<".","g","i","t">>

\* "v1.2"  
RevV12 ==
    <<"v","1",".","2">>

\* "ignored"  
RevIgnored ==
    <<"i","g","n","o","r","e","d">>

\* "src"  
CtxSrc ==
    <<"s","r","c">>

\* "/src"  
CtxSlashSrc ==
    <<"/","s","r","c">>

\* "src/"  
CtxSrcSlash ==
    <<"s","r","c","/">>

\* "https://x.io/f"  an absolute link
CtxLink ==
    <<"h","t","t","p","s",":","/","/","x",".","i","o","/","f">>

\* "https://github.com/o\n"  holds a control character
UrlCtl ==
    <<"h","t","t","p","s",":","/","/","g","i","t","h","u","b",".","c","o","m","/","o",
      "\n">>

\* "error: pathspec '"  git checkout, revision missing: text before the revision
PathspecHead ==
    <<"e","r","r","o","r",":"," ","p","a","t","h","s","p","e","c"," ","'">>

\* "' did not match any file(s) known to git\n"  git checkout, revision missing: text after the revision
PathspecTail ==
    <<"'"," ","d","i","d"," ","n","o","t"," ","m","a","t","c","h"," ","a","n","y"," ",
      "f","i","l","e","(","s",")"," ","k","n","o","w","n"," ","t","o"," ","g","i","t",
      "\n">>

\* "fatal: unable to write new index file\n"  git checkout, another failure
OutIndex ==
    <<"f","a","t","a","l",":"," ","u","n","a","b","l","e"," ","t","o"," ","w","r","i",
      "t","e"," ","n","e","w"," ","i","n","d","e","x"," ","f","i","l","e","\n">>

\* "Switched to a new branch\n"  git checkout, success
OutSwitched ==
    <<"S","w","i","t","c","h","e","d"," ","t","o"," ","a"," ","n","e","w"," ","b","r",
      "a","n","c","h","\n">>

\* "dev"  
RevDev ==
    <<"d","e","v">>

\* "chdir: no such file or directory"  text of the error of a command whose directory is missing
ChdirText ==
    <<"c","h","d","i","r",":"," ","n","o"," ","s","u","c","h"," ","f","i","l","e"," ",
      "o","r"," ","d","i","r","e","c","t","o","r","y">>

\* "\""  the quotes of the verb %q
Quote ==
    <<"\"">>

-----------------------------------------------------------------------------
(* Package strings, as far as util.go uses it.                             *)

\* strings.HasPrefix
HasPrefix(s, prefix) ==
    /\ Len(s) >= Len(prefix)
    /\ SubSeq(s, 1, Len(prefix)) = prefix

\* strings.HasSuffix
HasSuffix(s, suffix) ==
    /\ Len(s) >= Len(suffix)
    /\ SubSeq(s, Len(s) - Len(suffix) + 1, Len(s)) = suffix

\* Whether substr occurs in s at the zero-based offset i.
OccursAt(s, substr, i) ==
    /\ i >= 0
    /\ i + Len(substr) <= Len(s)
    /\ SubSeq(s, i + 1, i + Len(substr)) = substr

\* strings.Index: zero-based offset of the first occurrence, -1 when none.
Index(s, substr) ==
    LET hits == {i \in 0..(Len(s) - Len(substr)) : OccursAt(s, substr, i)}
    IN  IF hits = {} THEN -1
        ELSE CHOOSE i \in hits : \A j \in hits : i <= j

\* strings.LastIndex
LastIndex(s, substr) ==
    LET hits == {i \in 0..(Len(s) - Len(substr)) : OccursAt(s, substr, i)}
    IN  IF hits = {} THEN -1
        ELSE CHOOSE i \in hits : \A j \in hits : i >= j

\* strings.Contains
Contains(s, substr) == Index(s, substr) >= 0

\* strings.TrimSuffix
TrimSuffix(s, suffix) ==
    IF HasSuffix(s, suffix) THEN SubSeq(s, 1, Len(s) - Len(suffix)) ELSE s

\* strings.TrimPrefix
TrimPrefix(s, prefix) ==
    IF HasPrefix(s, prefix) THEN SubSeq(s, Len(prefix) + 1, Len(s)) ELSE s

\* strings.Replace(s, old, new, 1), old not empty.
ReplaceFirst(s, old, new) ==
    LET i == Index(s, old)
    IN  IF i < 0 THEN s
        ELSE SubSeq(s, 1, i) \o new \o SubSeq(s, i + Len(old) + 1, Len(s))

\* strings.Split(s, sep), sep not empty: the pieces between the occurrences.
RECURSIVE Split(_, _)
Split(s, sep) ==
    LET i == Index(s, sep)
    IN  IF i < 0 THEN <<s>>
        ELSE <<SubSeq(s, 1, i)>> \o Split(SubSeq(s, i + Len(sep) + 1, Len(s)), sep)

-----------------------------------------------------------------------------
(* Package regexp, for the four patterns of util.go.  In Go's syntax a dot *)
(* matches any character but a newline, $ matches at the end of the text,  *)
(* and the match is searched anywhere in the text.                         *)

\* regexp.MatchString("<head>.*<tail>", s): head, then characters of one line,
\* then tail.
MatchHeadTail(head, tail, s) ==
    \E i \in 0..Len(s) :
        /\ OccursAt(s, head, i)
        /\ \E j \in (i + Len(head))..Len(s) :
              /\ OccursAt(s, tail, j)
              /\ \A k \in (i + Len(head) + 1)..j : s[k] /= "\n"

\* regexp.MustCompile(".git$").ReplaceAllString(URL, ""): the pattern's dot is
\* not escaped, so the match is any character but a newline, then git, at the
\* end of the text.
ReplaceGitRegexp(URL) ==
    IF /\ Len(URL) >= Len(GitSuffix) + 1
       /\ HasSuffix(URL, GitSuffix)
       /\ URL[Len(URL) - Len(GitSuffix)] /= "\n"
    THEN SubSeq(URL, 1, Len(URL) - Len(GitSuffix) - 1)
    ELSE URL

-----------------------------------------------------------------------------
(* Package net/url: url.Parse, as far as the Host of the result goes.  The *)
(* texts parsed here hold none of # ? % [ so fragments, queries, escapes   *)
(* and IPv6 literals do not occur.                                         *)

Letters ==
    {"a","b","c","d","e","f","g","h","i","j","k","l","m","n","o","p","q","r","s",
     "t","u","v","w","x","y","z","A","B","C","D","E","F","G","H","I","J","K","L",
     "M","N","O","P","Q","R","S","T","U","V","W","X","Y","Z"}
Digits == {"0","1","2","3","4","5","6","7","8","9"}
\* stringContainsCTLByte: a byte below the space or 0x7f.
ControlChars == {"\n"}

\* getScheme: the one-based position of the colon ending the scheme, 0 when
\* the text has no scheme, -1 when it starts with a colon.
RECURSIVE SchemeEnd(_, _)
SchemeEnd(s, i) ==
    IF i > Len(s) THEN 0
    ELSE IF s[i] \in Letters THEN SchemeEnd(s, i + 1)
    ELSE IF s[i] \in Digits \cup {"+", "-", "."}
         THEN IF i = 1 THEN 0 ELSE SchemeEnd(s, i + 1)
    ELSE IF s[i] = ":"
         THEN IF i = 1 THEN -1 ELSE i
    ELSE 0

\* validOptionalPort: empty, or a colon followed by digits.
ValidOptionalPort(port) ==
    \/ port = Empty
    \/ /\ port[1] = ":"
       /\ \A k \in 2..Len(port) : port[k] \in Digits

\* parseAuthority and parseHost: the text after the last @, its port checked.
ParseAuthority(authority) ==
    LET host == SubSeq(authority, LastIndex(authority, AtSign) + 2, Len(authority))
        c    == LastIndex(host, <<":">>)
    IN  IF c >= 0 /\ ~ValidOptionalPort(SubSeq(host, c + 1, Len(host)))
        THEN [ok |-> FALSE, Host |-> Empty]
        ELSE [ok |-> TRUE, Host |-> host]

\* url.Parse(rawURL): whether it succeeds and the Host it finds.
ParseURL(rawURL) ==
    LET colon  == SchemeEnd(rawURL, 1)
        scheme == IF colon > 0 THEN SubSeq(rawURL, 1, colon - 1) ELSE Empty
        rest   == IF colon > 0 THEN SubSeq(rawURL, colon + 1, Len(rawURL)) ELSE rawURL
        slash  == Index(rest, Slash)
        first  == IF slash >= 0 THEN SubSeq(rest, 1, slash) ELSE rest
        auth   == SubSeq(rest, 3, Len(rest))
        cut    == Index(auth, Slash)
    IN  IF \E k \in 1..Len(rawURL) : rawURL[k] \in ControlChars
        THEN [ok |-> FALSE, Host |-> Empty]
        ELSE IF colon < 0
        THEN [ok |-> FALSE, Host |-> Empty]
        ELSE IF ~HasPrefix(rest, Slash)
        THEN IF scheme /= Empty THEN [ok |-> TRUE, Host |-> Empty]
             ELSE IF Contains(first, <<":">>) THEN [ok |-> FALSE, Host |-> Empty]
             ELSE [ok |-> TRUE, Host |-> Empty]
        ELSE IF (scheme /= Empty \/ ~HasPrefix(rest, <<"/", "/", "/">>))
                /\ HasPrefix(rest, <<"/", "/">>)
        THEN ParseAuthority(IF cut >= 0 THEN SubSeq(auth, 1, cut) ELSE auth)
        ELSE [ok |-> TRUE, Host |-> Empty]

-----------------------------------------------------------------------------
(* ConvertGitHubURL and UpdateGitLink.                                     *)

\* A nil error of ConvertGitHubURL.
NoError == [kind |-> "nil", URL |-> Empty]

\* &InvalidURL{URL: URL, Err: err}
InvalidURL(URL) == [kind |-> "InvalidURL", URL |-> URL]

\* IsGitHubBrowseHost without its guard against a raw-content host.
IsGitHubHostUnguarded(host) == Contains(host, Github)

\* Line 174: the host names GitHub and is not a raw-content host already.
IsGitHubBrowseHost(host) == Contains(host, Github) /\ ~Contains(host, Raw)

\* Lines 161-167: remove what .git$ matches, then one trailing slash.
NormalizeURL(URL) == TrimSuffix(ReplaceGitRegexp(URL), Slash)

\* Line 177: the URL's second-to-last piece between slashes is tree.
IsTreeURL(URL) ==
    LET URLSlice == Split(URL, Slash)
    IN  /\ Len(URLSlice) > 2
        /\ URLSlice[Len(URLSlice) - 1] = Tree

\* Lines 176-186: drop the first /tree, or else append the revision or main.
ConvertPath(URL, revision) ==
    IF IsTreeURL(URL) THEN ReplaceFirst(URL, SlashTree, Empty)
    ELSE IF revision /= Empty THEN URL \o Slash \o revision
    ELSE URL \o SlashMain

\* AppendContext without the trimming of the leading slash.
AppendContextUntrimmed(URL, context) ==
    IF context /= Empty /\ context /= DotSlash /\ context /= Dot
    THEN URL \o Slash \o context
    ELSE URL

\* Lines 187-191: append the context, one leading slash of it trimmed.
AppendContext(URL, context) ==
    IF context /= Empty /\ context /= DotSlash /\ context /= Dot
    THEN URL \o Slash \o TrimPrefix(context, Slash)
    ELSE URL

\* Lines 194-196: the first github.com becomes the raw host, when the host is
\* github.com.
ConvertHost(URL, host) ==
    IF host = GithubCom THEN ReplaceFirst(URL, GithubCom, RawGithubCom) ELSE URL

\* ConvertGitHubURL: the string and the error it returns, and the URL as
\* normalized on the way.
ConvertGitHubURL(URL, revision, context) ==
    LET norm == NormalizeURL(URL)
        url  == ParseURL(norm)
    IN  IF ~url.ok
        THEN [URL |-> Empty, err |-> InvalidURL(norm), norm |-> norm]
        ELSE IF IsGitHubBrowseHost(url.Host)
        THEN [URL  |-> ConvertHost(AppendContext(ConvertPath(norm, revision), context),
                                   url.Host),
              err  |-> NoError, norm |-> norm]
        ELSE [URL |-> norm, err |-> NoError, norm |-> norm]

\* UpdateGitLink: a context that is itself a link is returned as it is.
UpdateGitLink(repo, revision, context) ==
    IF ~HasPrefix(context, Http)
    THEN LET r == ConvertGitHubURL(repo, revision, context)
         IN  IF r.err.kind /= "nil" THEN [URL |-> Empty, err |-> r.err, norm |-> r.norm]
             ELSE r
    ELSE [URL |-> context, err |-> NoError, norm |-> repo]

\* The URLs, revisions and contexts the functions are applied to.
Hosts == {GithubCom, RawGithubCom, HostGitlab, HostEnterprise}
Paths == {PathRepo, PathLegit, PathTreeRef, PathTreeRefSrc}
Suffixes == {Empty, DotGit, Slash, DotGit \o Slash}
BrowseURLs == {GitSep \o h \o p \o s : h \in Hosts, p \in Paths, s \in Suffixes}
URLs == BrowseURLs \cup {UrlScp, UrlCtl}
Revisions == {Empty, RevV12, RevIgnored}
Contexts == {Empty, Dot, DotSlash, CtxSrc, CtxSlashSrc, CtxSrcSlash, CtxLink}

InitURL ==
    /\ upc = "ready"
    /\ ufn = "none"
    /\ inURL = Empty
    /\ inRevision = Empty
    /\ inContext = Empty
    /\ normURL = Empty
    /\ outURL = Empty
    /\ outErr = NoError
    /\ prevURL = Empty
    /\ applied = 0

\* A call ConvertGitHubURL(URL, revision, context).
CallConvertGitHubURL ==
    /\ upc = "ready"
    /\ \E URL \in URLs, revision \in Revisions, context \in Contexts :
          LET r == ConvertGitHubURL(URL, revision, context)
          IN  /\ inURL' = URL
              /\ inRevision' = revision
              /\ inContext' = context
              /\ normURL' = r.norm
              /\ outURL' = r.URL
              /\ outErr' = r.err
    /\ ufn' = "ConvertGitHubURL"
    /\ prevURL' = Empty
    /\ applied' = 1
    /\ upc' = "converted"
    /\ UNCHANGED cloneVars

\* A call UpdateGitLink(repo, revision, context).
CallUpdateGitLink ==
    /\ upc = "ready"
    /\ \E repo \in URLs, revision \in Revisions, context \in Contexts :
          LET r == UpdateGitLink(repo, revision, context)
          IN  /\ inURL' = repo
              /\ inRevision' = revision
              /\ inContext' = context
              /\ normURL' = r.norm
              /\ outURL' = r.URL
              /\ outErr' = r.err
    /\ ufn' = "UpdateGitLink"
    /\ prevURL' = Empty
    /\ applied' = 1
    /\ upc' = "converted"
    /\ UNCHANGED cloneVars

\* The caller passes the string it got back to the same function again, with
\* the same revision and context.
ApplyAgain ==
    /\ upc = "converted"
    /\ outErr.kind = "nil"
    /\ applied < MaxApply
    /\ LET r == IF ufn = "UpdateGitLink"
                THEN UpdateGitLink(outURL, inRevision, inContext)
                ELSE ConvertGitHubURL(outURL, inRevision, inContext)
       IN  /\ normURL' = r.norm
           /\ outURL' = r.URL
           /\ outErr' = r.err
    /\ prevURL' = outURL
    /\ applied' = applied + 1
    /\ UNCHANGED <<upc, ufn, inURL, inRevision, inContext>>
    /\ UNCHANGED cloneVars

\* The caller is done with the result.
ForgetURL ==
    /\ upc = "converted"
    /\ upc' = "ready"
    /\ ufn' = "none"
    /\ inURL' = Empty
    /\ inRevision' = Empty
    /\ inContext' = Empty
    /\ normURL' = Empty
    /\ outURL' = Empty
    /\ outErr' = NoError
    /\ prevURL' = Empty
    /\ applied' = 0
    /\ UNCHANGED cloneVars

NextURL ==
    \/ CallConvertGitHubURL
    \/ CallUpdateGitLink
    \/ ApplyAgain
    \/ ForgetURL

-----------------------------------------------------------------------------
(* CloneRepo and GetBranchFromRepo.                                        *)

\* A nil error of a command.
Nil == "nil"
\* The errors a command ends with, and their texts.
ExitErrors == {"exit status 128", "exit status 1", "chdir"}
ErrorText(e) ==
    CASE e = "exit status 128" -> Exit128
      [] e = "exit status 1"   -> Exit1
      [] e = "chdir"           -> ChdirText
      [] OTHER                 -> Empty

\* What a call returns.  kind "nil" is a nil error; msg is the text given to
\* fmt.Errorf; value is the string returned beside the error.
Returned(kind, URL, Revision, Err, msg, value) ==
    [kind |-> kind, URL |-> URL, Revision |-> Revision, Err |-> Err,
     msg |-> msg, value |-> value]
NoResult == Returned("none", Empty, Empty, Nil, Empty, Empty)
NilResult == Returned("nil", Empty, Empty, Nil, Empty, Empty)
\* tempStr[1] of a one-element slice: the runtime panics.
Panic == Returned("panic", Empty, Empty, Nil, Empty, Empty)

\* IsExist: os.Stat on a directory that is there, is not there, or cannot be
\* examined.
IsExist(dir) ==
    CASE dir = "present" -> [exist |-> TRUE, err |-> FALSE]
      [] dir = "absent"  -> [exist |-> FALSE, err |-> FALSE]
      [] OTHER           -> [exist |-> FALSE, err |-> TRUE]

\* Lines 54-57: os.MkdirAll when the directory is not known to exist; made
\* says whether the directory could be made.  Its error is dropped.
PrepareDir(dir, made) ==
    LET probe == IsExist(dir)
    IN  IF ~probe.exist \/ probe.err
        THEN IF dir = "absent" /\ made THEN "present" ELSE dir
        ELSE dir

\* Lines 58-65: the clone source.  ok is FALSE when tempStr[1] is out of range.
BuildCloneURL(g) ==
    IF g.Token /= Empty
    THEN LET tempStr == Split(g.RepoURL, GitSep)
         IN  IF Len(tempStr) < 2 THEN [ok |-> FALSE, URL |-> g.RepoURL]
             ELSE [ok |-> TRUE, URL |-> TokenPrefix \o g.Token \o AtSign \o tempStr[2]]
    ELSE [ok |-> TRUE, URL |-> g.RepoURL]

\* The three patterns, matched against a command's output.
MatchRepoNotFound(out) == MatchHeadTail(RepoNotFoundHead, RepoNotFoundTail, out)
MatchRevisionNotFound(out) ==
    MatchHeadTail(RevisionNotFoundHead, RevisionNotFoundTail, out)
MatchAuthenticationFailed(out) == Contains(out, AuthenticationFailedHead)

\* Lines 74-83: what CloneRepo returns when the clone command failed.
CloneFailure(out, e, URL) ==
    IF MatchRepoNotFound(out)
    THEN Returned("RepoNotFound", URL, Empty, e, Empty, Empty)
    ELSE IF MatchAuthenticationFailed(out)
    THEN Returned("AuthenticationFailed", URL, Empty, e, Empty, Empty)
    ELSE Returned("Generic", Empty, Empty, e, CloneFailedText \o ErrorText(e), Empty)

\* Lines 90-96: what CloneRepo returns when the checkout command failed; out is
\* the local output, which still holds what the clone command printed.
CheckoutFailure(out, e, URL, revision) ==
    IF MatchRevisionNotFound(out)
    THEN Returned("RepoNotFound", URL, revision, e, Empty, Empty)
    ELSE Returned("Generic", Empty, Empty, e,
                  CheckoutFailedText \o Quote \o revision \o Quote \o ColonSpace
                      \o ErrorText(e),
                  Empty)

\* AfterClone with a failed clone tried again.
AfterCloneRetrying(e, revision) ==
    IF e /= Nil THEN "clone"
    ELSE IF revision /= Empty THEN "checkout"
    ELSE "returned"

\* AfterClone without the test of the clone's error.
AfterCloneUnchecked(e, revision) ==
    IF revision /= Empty THEN "checkout" ELSE "returned"

\* Lines 74, 85: where CloneRepo goes once the clone command has ended with e.
AfterClone(e, revision) ==
    IF e /= Nil THEN "returned"
    ELSE IF revision /= Empty THEN "checkout"
    ELSE "returned"

\* Lines 110-117: what GetBranchFromRepo returns.
BranchResult(branchBytes, e) ==
    IF e /= Nil
    THEN Returned("Generic", Empty, Empty, e, BranchFailedText \o ErrorText(e), Empty)
    ELSE Returned("nil", Empty, Empty, Nil, Empty, Split(branchBytes, Newline)[1])

\* What a call can find at clonePath: a directory, nothing, or a path that
\* cannot be examined.
DirStates == {"present", "absent", "denied"}

\* The arguments of the calls.
RepoURLs == {UrlRepo, UrlRepoGit, UrlHttp, UrlScp, UrlTwice}
CloneRevisions == {Empty, RevV9, RevDev}
Tokens == {Empty, Tok}
ClonePaths == {PathTmp, PathOdd}

\* What git clone prints first: the directory it clones into.
CloningLine(path) == CloningHead \o path \o CloningTail

\* How a clone command can end: the error and the combined output.
CloneOutcomes(path) ==
    {[err |-> Nil, out |-> CloningLine(path)]}
    \cup {[err |-> "exit status 128", out |-> CloningLine(path) \o o] :
             o \in {OutRepoNotFound, OutAuthFailed, OutBoth, OutSplit, OutOther}}

\* How a checkout command can end.
CheckoutOutcomes(revision) ==
    {[err |-> Nil, out |-> OutSwitched],
     [err |-> "exit status 1", out |-> PathspecHead \o revision \o PathspecTail],
     [err |-> "exit status 128", out |-> OutIndex]}

\* How a rev-parse command can end.
BranchOutcomes ==
    {[err |-> Nil, out |-> OutBranch],
     [err |-> Nil, out |-> OutHead],
     [err |-> "exit status 128", out |-> OutNotRepo]}

NoGitURL == [RepoURL |-> Empty, Revision |-> Empty, Token |-> Empty]

InitClone ==
    /\ pc = "idle"
    /\ op = "none"
    /\ gitURL = NoGitURL
    /\ clonePath = Empty
    /\ dirState = "absent"
    /\ cloneURL = Empty
    /\ output = Empty
    /\ lastOut = Empty
    /\ err = Nil
    /\ running = {}
    /\ started = <<>>
    /\ finished = <<>>
    /\ result = NoResult
    /\ calls = 0

\* CloneRepo is called: lines 54-65.  found is what is at clonePath then.
CallCloneRepo ==
    /\ pc = "idle"
    /\ calls < MaxCalls
    /\ \E path \in ClonePaths, RepoURL \in RepoURLs, Revision \in CloneRevisions,
          Token \in Tokens, found \in DirStates, made \in BOOLEAN :
          LET g == [RepoURL |-> RepoURL, Revision |-> Revision, Token |-> Token]
              u == BuildCloneURL(g)
          IN  /\ clonePath' = path
              /\ gitURL' = g
              /\ dirState' = PrepareDir(found, made)
              /\ cloneURL' = u.URL
              /\ IF u.ok
                 THEN pc' = "clone" /\ result' = NoResult
                 ELSE pc' = "panicked" /\ result' = Panic
    /\ op' = "CloneRepo"
    /\ calls' = calls + 1
    /\ output' = Empty
    /\ lastOut' = Empty
    /\ err' = Nil
    /\ started' = <<>>
    /\ finished' = <<>>
    /\ UNCHANGED running
    /\ UNCHANGED urlVars

\* Lines 66-73, first half: git clone is started in clonePath.  A command
\* whose directory is missing does not start, and CloneRepo returns.
StartClone ==
    /\ pc = "clone"
    /\ IF dirState = "present"
       THEN /\ running' = running \cup {"clone"}
            /\ started' = Append(started, [cmd |-> "clone", args |-> <<cloneURL, clonePath>>])
            /\ pc' = "wait_clone"
            /\ UNCHANGED <<output, lastOut, err, finished, result>>
       ELSE /\ output' = Empty
            /\ lastOut' = Empty
            /\ err' = "chdir"
            /\ finished' = Append(finished, [cmd |-> "clone", err |-> "chdir", ran |-> FALSE])
            /\ result' = CloneFailure(Empty, "chdir", cloneURL)
            /\ pc' = AfterClone("chdir", gitURL.Revision)
            /\ UNCHANGED <<running, started>>
    /\ UNCHANGED <<op, gitURL, clonePath, dirState, cloneURL, calls>>
    /\ UNCHANGED urlVars

\* Lines 73-85: the clone command ends; CloneRepo classifies a failure and
\* returns, or goes on.
CloneExits ==
    /\ pc = "wait_clone"
    /\ "clone" \in running
    /\ \E o \in CloneOutcomes(clonePath) :
          /\ output' = o.out
          /\ lastOut' = o.out
          /\ err' = o.err
          /\ finished' = Append(finished, [cmd |-> "clone", err |-> o.err, ran |-> TRUE])
          /\ pc' = AfterClone(o.err, gitURL.Revision)
          /\ result' = IF o.err /= Nil THEN CloneFailure(o.out, o.err, cloneURL)
                       ELSE IF gitURL.Revision /= Empty THEN NoResult
                       ELSE NilResult
    /\ running' = running \ {"clone"}
    /\ UNCHANGED <<op, gitURL, clonePath, dirState, cloneURL, started, calls>>
    /\ UNCHANGED urlVars

\* Lines 86-89, first half: git checkout is started in clonePath.
StartCheckout ==
    /\ pc = "checkout"
    /\ running' = running \cup {"checkout"}
    /\ started' = Append(started, [cmd |-> "checkout", args |-> <<gitURL.Revision>>])
    /\ pc' = "wait_checkout"
    /\ UNCHANGED <<op, gitURL, clonePath, dirState, cloneURL, output, lastOut, err,
                   finished, result, calls>>
    /\ UNCHANGED urlVars

\* Lines 89-99: the checkout command ends and CloneRepo returns.  The
\* command's output is dropped; output keeps the clone command's.
CheckoutExits ==
    /\ pc = "wait_checkout"
    /\ "checkout" \in running
    /\ \E o \in CheckoutOutcomes(gitURL.Revision) :
          /\ lastOut' = o.out
          /\ err' = o.err
          /\ finished' = Append(finished, [cmd |-> "checkout", err |-> o.err, ran |-> TRUE])
          /\ result' = IF o.err /= Nil
                       THEN CheckoutFailure(output, o.err, cloneURL, gitURL.Revision)
                       ELSE NilResult
    /\ running' = running \ {"checkout"}
    /\ pc' = "returned"
    /\ UNCHANGED <<op, gitURL, clonePath, dirState, cloneURL, output, started, calls>>
    /\ UNCHANGED urlVars

\* GetBranchFromRepo is called: lines 105-109, first half.  git rev-parse is
\* started in clonePath, or does not start when the directory is missing.
CallGetBranchFromRepo ==
    /\ pc = "idle"
    /\ calls < MaxCalls
    /\ \E path \in ClonePaths, found \in DirStates :
          /\ clonePath' = path
          /\ dirState' = found
          /\ IF found = "present"
             THEN /\ running' = running \cup {"rev-parse"}
                  /\ started' = <<[cmd |-> "rev-parse", args |-> <<>>]>>
                  /\ finished' = <<>>
                  /\ pc' = "wait_branch"
                  /\ err' = Nil
                  /\ result' = NoResult
             ELSE /\ err' = "chdir"
                  /\ started' = <<>>
                  /\ finished' = <<[cmd |-> "rev-parse", err |-> "chdir", ran |-> FALSE]>>
                  /\ result' = BranchResult(Empty, "chdir")
                  /\ pc' = "returned"
                  /\ UNCHANGED running
    /\ op' = "GetBranchFromRepo"
    /\ calls' = calls + 1
    /\ gitURL' = NoGitURL
    /\ cloneURL' = Empty
    /\ output' = Empty
    /\ lastOut' = Empty
    /\ UNCHANGED urlVars

\* Lines 109-117: the rev-parse command ends and GetBranchFromRepo returns.
BranchExits ==
    /\ pc = "wait_branch"
    /\ "rev-parse" \in running
    /\ \E o \in BranchOutcomes :
          /\ lastOut' = o.out
          /\ err' = o.err
          /\ finished' = Append(finished, [cmd |-> "rev-parse", err |-> o.err, ran |-> TRUE])
          /\ result' = BranchResult(o.out, o.err)
    /\ running' = running \ {"rev-parse"}
    /\ pc' = "returned"
    /\ UNCHANGED <<op, gitURL, clonePath, dirState, cloneURL, output, started, calls>>
    /\ UNCHANGED urlVars

\* The caller has the result; the next call can be made.
Return ==
    /\ pc = "returned"
    /\ pc' = "idle"
    /\ UNCHANGED <<op, gitURL, clonePath, dirState, cloneURL, output, lastOut, err,
                   running, started, finished, result, calls>>
    /\ UNCHANGED urlVars

NextClone ==
    \/ CallCloneRepo
    \/ StartClone
    \/ CloneExits
    \/ StartCheckout
    \/ CheckoutExits
    \/ CallGetBranchFromRepo
    \/ BranchExits
    \/ Return

-----------------------------------------------------------------------------
Init == InitClone /\ InitURL

\* CloneRepo and GetBranchFromRepo, called one after the other.
Next == NextClone
Spec == Init /\ [][Next]_vars

\* ConvertGitHubURL and UpdateGitLink.
SpecURL == Init /\ [][NextURL]_vars

-----------------------------------------------------------------------------
(* Properties of ConvertGitHubURL and UpdateGitLink, under SpecURL.        *)

\* "/org/repo/v1.2/src": PathTreeRefSrc without its /tree, and also PathRepo
\* followed by the revision v1.2 and the context src.
PathRefSrc ==
    <<"/","o","r","g","/","r","e","p","o","/","v","1",".","2","/","s","r","c">>

\* The suffix a context stands for: none for "", "." and "./", else a slash and
\* the context without one leading slash.
ContextSuffix(context) ==
    IF context \in {Empty, Dot, DotSlash} THEN Empty
    ELSE IF Head(context) = "/" THEN context
    ELSE Slash \o context

\* The suffix a revision stands for: /main when it is empty.
RevisionSuffix(revision) ==
    IF revision = Empty THEN <<"/", "m", "a", "i", "n">> ELSE Slash \o revision

\* URL is https://github.com, alone or followed by a path.
HostIsGithubCom(URL) ==
    /\ HasPrefix(URL, GitSep \o GithubCom)
    /\ \/ Len(URL) = Len(GitSep \o GithubCom)
       \/ URL[Len(GitSep \o GithubCom) + 1] = "/"

\* What follows https://github.com in URL.
PathOf(URL) == SubSeq(URL, Len(GitSep \o GithubCom) + 1, Len(URL))

\* ConvertGitHubURL has been applied once, to inURL, and succeeded.
ConvertedOnce ==
    /\ upc = "converted"
    /\ ufn = "ConvertGitHubURL"
    /\ applied = 1
    /\ outErr.kind = "nil"

\* C1: for a github.com URL whose path holds /tree/<ref> followed by further
\* components (https://github.com/org/repo/tree/v1.2/src), ConvertGitHubURL
\* removes /tree and appends neither the revision nor main: the result is
\* https://raw.githubusercontent.com/org/repo/v1.2/src, then the context.
C1_TreeURLIgnoresRevision ==
    (ConvertedOnce /\ normURL = GitSep \o GithubCom \o PathTreeRefSrc)
        => outURL = GitSep \o RawGithubCom \o PathRefSrc \o ContextSuffix(inContext)

C7_StripsLiteralDotGit ==
    (upc = "converted" /\ ufn = "ConvertGitHubURL" /\ applied = 1)
        => normURL = TrimSuffix(TrimSuffix(inURL, DotGit), Slash)

\* C10: ConvertGitHubURL is idempotent: applied again to its own output with
\* the same revision and context, it returns that output unchanged, whatever
\* the host.  Stated for the outputs that lines 161-167 leave as they are, so
\* that a difference comes from lines 174-197 alone.
C10_Idempotent ==
    (/\ upc = "converted"
     /\ applied >= 2
     /\ outErr.kind = "nil"
     /\ NormalizeURL(prevURL) = prevURL)
        => outURL = prevURL

\* The host of the URL first passed in, as ConvertGitHubURL finds it.
InputHost == ParseURL(NormalizeURL(inURL)).Host

\* C10, amended: applied again to its own output, ConvertGitHubURL returns
\* that output unchanged when the host first passed in is exactly github.com,
\* or does not contain github, or contains raw, and the output is one that
\* lines 161-167 leave as it is (no trailing slash, no match of .git$).
C10_IdempotentOnRewrittenHost ==
    (/\ upc = "converted"
     /\ applied >= 2
     /\ outErr.kind = "nil"
     /\ InputHost = GithubCom \/ ~IsGitHubBrowseHost(InputHost)
     /\ NormalizeURL(prevURL) = prevURL)
        => outURL = prevURL

\* C10, reached: https://github.com/org/repo gave
\* https://raw.githubusercontent.com/org/repo/main, and gave it again.
C10_Witness ==
    /\ upc = "converted"
    /\ ufn = "ConvertGitHubURL"
    /\ applied = 2
    /\ inURL = GitSep \o GithubCom \o PathRepo
    /\ inRevision = Empty
    /\ inContext = Empty
    /\ prevURL = GitSep \o RawGithubCom \o PathRepo \o SlashMain
    /\ outURL = prevURL

-----------------------------------------------------------------------------
(* Properties of CloneRepo and GetBranchFromRepo, under Spec.              *)

\* CloneRepo has returned to its caller.
CloneReturned == op = "CloneRepo" /\ pc = "returned"

\* The clone command of the current call ran and ended with a nil error.
CloneSucceeded ==
    /\ Len(finished) >= 1
    /\ finished[1] = [cmd |-> "clone", err |-> Nil, ran |-> TRUE]

\* The clone command of the current call ran and failed.
CloneFailed ==
    /\ Len(finished) >= 1
    /\ finished[1].cmd = "clone"
    /\ finished[1].ran
    /\ finished[1].err /= Nil

\* The number of commands cmd among those the current call started.
Started(cmd) == Cardinality({i \in 1..Len(started) : started[i].cmd = cmd})

\* C2: with a token, no error CloneRepo returns holds the token, neither in
\* its URL nor in its message.
C2_TokenScrubbed ==
    (CloneReturned /\ gitURL.Token /= Empty /\ result.kind /= "nil")
        => /\ ~Contains(result.URL, gitURL.Token)
           /\ ~Contains(result.msg, gitURL.Token)

\* C3: when the clone succeeded and the checkout failed because the revision
\* does not exist (git printed its pathspec message), CloneRepo returns a
\* RevisionNotFound error with the URL and the revision.
C3_RevisionNotFoundReturned ==
    (/\ CloneReturned
     /\ CloneSucceeded
     /\ Len(finished) = 2
     /\ finished[2].err /= Nil
     /\ lastOut = PathspecHead \o gitURL.Revision \o PathspecTail)
        => /\ result.kind = "RevisionNotFound"
           /\ result.URL /= Empty
           /\ result.Revision = gitURL.Revision

\* C4: with a token and a URL that does not begin with https://, CloneRepo
\* returns an error without a crash and without starting a command; with a
\* URL that does, the clone source is https://token:<token>@ and the rest of
\* the URL after the scheme.
C4_TokenInjection ==
    (op = "CloneRepo" /\ gitURL.Token /= Empty)
        => IF HasPrefix(gitURL.RepoURL, GitSep)
           THEN cloneURL = TokenPrefix \o gitURL.Token \o AtSign
                               \o SubSeq(gitURL.RepoURL, Len(GitSep) + 1,
                                         Len(gitURL.RepoURL))
           ELSE /\ pc = "returned"
                /\ result.kind = "Generic"
                /\ started = <<>>

\* C5: when the clone command failed, CloneRepo returns RepoNotFound if the
\* output matches the repository pattern, else AuthenticationFailed if it
\* matches the authentication pattern, else a Generic error that wraps the
\* output.
C5_CloneFailureClassified ==
    (CloneReturned /\ CloneFailed)
        => IF MatchRepoNotFound(output) THEN result.kind = "RepoNotFound"
           ELSE IF MatchAuthenticationFailed(output)
                THEN result.kind = "AuthenticationFailed"
           ELSE /\ result.kind = "Generic"
                /\ Contains(result.msg, output)

\* C8: a call starts at most one external command, has none in flight when it
\* returns, and starts the clone command at most once.
C8_AtMostOneProcess ==
    /\ Len(started) <= 1
    /\ Started("clone") <= 1
    /\ pc \in {"idle", "returned", "panicked"} => running = {}

\* C8, amended: a call has at most one external command in flight at a time
\* and none when it returns; CloneRepo starts at most two, one clone and then
\* one checkout, GetBranchFromRepo one; no command is started twice.
C8_OneProcessAtATime ==
    /\ Cardinality(running) <= 1
    /\ Len(started) <= (IF op = "CloneRepo" THEN 2 ELSE 1)
    /\ \A cmd \in {"clone", "checkout", "rev-parse"} : Started(cmd) <= 1
    /\ pc \in {"idle", "returned", "panicked"} => running = {}

\* C8, reached: CloneRepo has returned after a clone and a checkout.
C8_Witness ==
    /\ CloneReturned
    /\ Len(started) = 2
    /\ started[1].cmd = "clone"
    /\ started[2].cmd = "checkout"
    /\ running = {}

\* C9: the checkout command is started only after the clone command ended
\* with success and only for a revision that is not empty; a failed clone
\* returns an error and a clone with an empty revision returns nil, both
\* without a checkout; CloneRepo returns nil only if the clone succeeded and
\* the revision is empty or the checkout succeeded.
C9_CheckoutAfterClone ==
    /\ Started("checkout") > 0
          => /\ started[1].cmd = "clone"
             /\ CloneSucceeded
             /\ "clone" \notin running
             /\ gitURL.Revision /= Empty
    /\ (CloneReturned /\ Len(finished) >= 1 /\ finished[1].err /= Nil)
          => /\ result.kind \notin {"nil", "none"}
             /\ Started("checkout") = 0
    /\ (CloneReturned /\ CloneSucceeded /\ gitURL.Revision = Empty)
          => /\ result.kind = "nil"
             /\ Started("checkout") = 0
    /\ (CloneReturned /\ result.kind = "nil")
          => /\ CloneSucceeded
             /\ \/ gitURL.Revision = Empty
                \/ /\ Len(finished) = 2
                   /\ finished[2] = [cmd |-> "checkout", err |-> Nil, ran |-> TRUE]

\* C9, reached: CloneRepo has returned nil after a clone and a checkout of a
\* revision.
C9_Witness ==
    /\ CloneReturned
    /\ result.kind = "nil"
    /\ gitURL.Revision = RevV9
    /\ Len(finished) = 2
    /\ finished[2].cmd = "checkout"

=============================================================================
